---- MODULE Spec2Model ----
(***************************************************************************)
(* State-machine model of src/app/page.tsx (BidWin AI Enterprise           *)
(* Platform): the GeneratorView and AuditorView request controllers.       *)
(*                                                                         *)
(* JavaScript values are modelled as follows.                              *)
(*   - The text of a textarea is a sequence of characters, so that         *)
(*     String.prototype.trim is computed and not assumed.                  *)
(*   - An object is a record; a property the object lacks is a field the   *)
(*     record lacks (read through Has).                                    *)
(*   - null and undefined are the records Null and Undefined.              *)
(* One action is one run-to-completion step of the JavaScript event loop:  *)
(* an event handler up to its first await, or the continuation of an await.*)
(***************************************************************************)
EXTENDS Integers, Sequences, FiniteSets, TLC

(***************************************************************************)
(* Bounds of the model.                                                    *)
(***************************************************************************)
MaxLen == 1        \* longest text typed into a textarea
MaxSubmits == 2    \* accepted submits per controller in one behaviour
MaxCopies == 1     \* clipboard copies in progress (awaits plus timers)

(***************************************************************************)
(* Module-level constants of the program.                                  *)
(***************************************************************************)
BID_GENERATOR_AGENT_ID == "6985a6533b50e9c8d7d7e939"
COMPLIANCE_AUDITOR_AGENT_ID == "6985a66c3b50e9c8d7d7e93e"
KNOWLEDGE_VAULT_RAG_ID == "6985a64460cd1fd2d988d920"
AgentIds == {BID_GENERATOR_AGENT_ID, COMPLIANCE_AUDITOR_AGENT_ID, KNOWLEDGE_VAULT_RAG_ID}

(***************************************************************************)
(* JavaScript values.                                                      *)
(***************************************************************************)
Null == [jsnull |-> TRUE]
Undefined == [jsundefined |-> TRUE]

\* obj has the property f
Has(obj, f) == f \in DOMAIN obj

\* truthiness of a stored object-or-null value (the test `response &&`)
TruthyObject(v) == v # Null /\ v # Undefined

\* truthiness of a string
TruthyString(s) == s # ""

(***************************************************************************)
(* Texts and String.prototype.trim.                                        *)
(***************************************************************************)
Chars == {" ", "q"}
IsWhitespace(c) == c = " "

Texts == UNION {[1..n -> Chars] : n \in 0..MaxLen}

RECURSIVE TrimStart(_)
TrimStart(s) ==
    IF s = <<>> THEN <<>>
    ELSE IF IsWhitespace(Head(s)) THEN TrimStart(Tail(s))
    ELSE s

RECURSIVE TrimEnd(_)
TrimEnd(s) ==
    IF s = <<>> THEN <<>>
    ELSE IF IsWhitespace(s[Len(s)]) THEN TrimEnd(SubSeq(s, 1, Len(s) - 1))
    ELSE s

Trim(s) == TrimEnd(TrimStart(s))

\* `!text.trim()`: the empty string is the only falsy string
TrimmedEmpty(s) == Trim(s) = <<>>


(***************************************************************************)
(* Payloads of the external agent (interfaces at lines 44-87).  The agent  *)
(* is outside the program, so its answers are inputs: well-formed results, *)
(* and results the unchecked cast `as unknown as ...` lets through.        *)
(***************************************************************************)
Citation1 == [source_text |-> "All customer data must be encrypted using AES-256...",
              relevance |-> "Directly answers encryption question"]
Citation2 == [source_text |-> "TLS 1.3 in transit", relevance |-> ""]

GenResultSuccess ==
    [answer |-> "AES-256 at rest, TLS 1.3 in transit.", status |-> "success",
     citations |-> <<Citation1, Citation2>>]
GenResultMissing ==
    [answer |-> "", status |-> "missing_info", citations |-> <<>>,
     warning |-> "No vault entry covers this question"]
GenResultMalformed == [answer |-> "AES-256"]

\* BidGeneratorResult: the required fields of the interface
IsBidGeneratorResult(r) ==
    /\ Has(r, "answer")
    /\ Has(r, "status")
    /\ r.status \in {"success", "missing_info"}
    /\ Has(r, "citations")

Sentence1 ==
    [sentence |-> "Our system is 100% unhackable.", status |-> "CONTRADICTION",
     risk_level |-> "danger",
     explanation |-> "Vault states no system is 100% immune to threats.",
     vault_reference |-> "Incident Response"]

AuditResultPoor ==
    [compliance_score |-> 20, total_sentences |-> 1, analysis |-> <<Sentence1>>,
     summary |-> "One contradiction found."]
AuditResultGood ==
    [compliance_score |-> 100, total_sentences |-> 0, analysis |-> <<>>,
     summary |-> "Nothing to report."]
AuditResultMalformed == [compliance_score |-> 90]

\* ComplianceAuditorResult: the required fields of the interface
IsComplianceAuditorResult(r) ==
    /\ Has(r, "compliance_score")
    /\ Has(r, "total_sentences")
    /\ Has(r, "analysis")
    /\ Has(r, "summary")

\* BidGeneratorResponse / ComplianceAuditorResponse around a result
AgentResponse(r) == [status |-> "success", result |-> r]
AgentResponseNoResult == [status |-> "error"]

(***************************************************************************)
(* What `await callAIAgent(...)` can produce: a returned object            *)
(* {success, response?, error?} or a thrown value.                         *)
(***************************************************************************)
Returned(v) == [kind |-> "return", value |-> v]
Thrown(e) == [kind |-> "throw", error |-> e]

FailureReturns ==
    { [success |-> FALSE, error |-> "Agent unreachable"],
      [success |-> FALSE, error |-> ""],
      [success |-> FALSE],
      [success |-> TRUE] }

ThrownValues ==
    { [isError |-> TRUE, message |-> "Failed to fetch"],
      [isError |-> TRUE, message |-> ""],
      [isError |-> FALSE] }

SuccessReturns(results) ==
    { [success |-> TRUE, response |-> AgentResponse(r)] : r \in results }
        \cup { [success |-> TRUE, response |-> AgentResponseNoResult] }

GeneratorOutcomes ==
    { Returned(v) : v \in SuccessReturns({GenResultSuccess, GenResultMissing, GenResultMalformed})
                            \cup FailureReturns }
        \cup { Thrown(e) : e \in ThrownValues }

AuditorOutcomes ==
    { Returned(v) : v \in SuccessReturns({AuditResultPoor, AuditResultGood, AuditResultMalformed})
                            \cup FailureReturns }
        \cup { Thrown(e) : e \in ThrownValues }

\* `result.success && result.response`
SuccessWithResponse(result) ==
    /\ Has(result, "success") /\ result.success
    /\ Has(result, "response") /\ TruthyObject(result.response)

\* `agentResponse.result`: undefined when the property is missing
ResultOf(agentResponse) ==
    IF Has(agentResponse, "result") THEN agentResponse.result ELSE Undefined

\* `result.error || fallback`
ErrorOr(result, fallback) ==
    IF Has(result, "error") /\ TruthyString(result.error) THEN result.error ELSE fallback

\* `error instanceof Error ? error.message : fallback`
MessageOf(error, fallback) ==
    IF error.isError THEN error.message ELSE fallback

(***************************************************************************)
(* State.                                                                  *)
(***************************************************************************)
VARIABLES
    question,       \* GeneratorView: useState('')
    genLoading,     \* GeneratorView: loading
    genResponse,    \* GeneratorView: response (BidGeneratorResult | null)
    copied,         \* GeneratorView: copied
    genPending,     \* handleGenerate invocations suspended at `await callAIAgent`
    copyPending,    \* handleCopy invocations suspended at `await copyToClipboard`
    copyTimers,     \* pending setTimeout(() => setCopied(false), 2000)
    draft,          \* AuditorView: useState('')
    audLoading,     \* AuditorView: loading
    audResponse,    \* AuditorView: response (ComplianceAuditorResult | null)
    audPending,     \* handleAudit invocations suspended at `await callAIAgent`
    vaultContent,   \* VaultView: useState('')
    saving,         \* VaultView: saving
    saveMessage,    \* VaultView: saveMessage
    savePending,    \* handleSave invocations suspended at the 1000 ms delay
    clearTimers,    \* pending setTimeout(() => setSaveMessage(''), 5000)
    activeTab,      \* Home: useState('generator')
    keepMounted,    \* Tabs: whether TabsContent keeps mounted a view not shown
    orphaned,       \* awaits and timers left behind by views that were unmounted
    taxIn,          \* the value the render passes to a classification function
    taxOut,         \* the presentation the render derives from it
    calls,          \* transport: number of callAIAgent calls per agent identifier
    genAccepted,    \* history: handleGenerate invocations that passed the guard
    audAccepted,    \* history: handleAudit invocations that passed the guard
    saveAccepted,   \* history: handleSave invocations that passed the guard
    last            \* history: the step taken last, with the value it received

genVars == <<question, genLoading, genResponse, copied, genPending, copyPending, copyTimers>>
audVars == <<draft, audLoading, audResponse, audPending>>
vaultVars == <<vaultContent, saving, saveMessage, savePending, clearTimers>>
taxVars == <<taxIn, taxOut>>
tabsVars == <<keepMounted, orphaned>>
histVars == <<genAccepted, audAccepted, saveAccepted, last>>
vars == <<genVars, audVars, vaultVars, activeTab, tabsVars, taxVars, calls, histVars>>

\* what the handlers of GeneratorView and AuditorView neither read nor set
outsideGenAud == <<vaultVars, activeTab, tabsVars, taxVars, saveAccepted>>

\* no await or timer belongs to an unmounted view
NoOrphans ==
    [gen |-> 0, copy |-> 0, copyTimers |-> 0, aud |-> 0, save |-> 0, clearTimers |-> 0]

\* the initial values of everything but AuditorView's stored response
InitOutsideAudResponse ==
    /\ question = <<>>
    /\ genLoading = FALSE
    /\ genResponse = Null
    /\ copied = FALSE
    /\ genPending = 0
    /\ copyPending = 0
    /\ copyTimers = 0
    /\ draft = <<>>
    /\ audLoading = FALSE
    /\ audPending = 0
    /\ calls = [a \in AgentIds |-> 0]
    /\ genAccepted = 0
    /\ audAccepted = 0
    /\ last = [op |-> "init"]
    /\ vaultContent = <<>>
    /\ saving = FALSE
    /\ saveMessage = ""
    /\ savePending = 0
    /\ clearTimers = 0
    /\ saveAccepted = 0
    /\ activeTab = "generator"
    /\ keepMounted \in BOOLEAN
    /\ orphaned = NoOrphans
    /\ taxIn = Null
    /\ taxOut = Null

Init == InitOutsideAudResponse /\ audResponse = Null

(***************************************************************************)
(* Rendering.  AuditorView dereferences response.analysis when a response  *)
(* is shown (line 444); without the array the render throws and React      *)
(* unmounts the tree, after which no handler runs and no state is set.     *)
(***************************************************************************)
RenderThrows ==
    /\ TruthyObject(audResponse)
    /\ ~audLoading
    /\ ~Has(audResponse, "analysis")

Mounted == ~RenderThrows

\* callAIAgent(message, agentId): one outbound request to agentId
CallAIAgent(message, agentId) ==
    calls' = [calls EXCEPT ![agentId] = @ + 1]

(***************************************************************************)
(* GeneratorView.                                                          *)
(***************************************************************************)
\* onChange={(e) => setQuestion(e.target.value)} of a Textarea with disabled={loading}
SetQuestion(text) ==
    /\ Mounted
    /\ ~genLoading
    /\ question' = text
    /\ last' = [op |-> "setQuestion"]
    /\ UNCHANGED <<genLoading, genResponse, copied, genPending, copyPending, copyTimers>>
    /\ UNCHANGED <<audVars, calls, genAccepted, audAccepted>>
    /\ UNCHANGED outsideGenAud

\* handleGenerate without its `if (!question.trim()) return`
HandleGenerateUnguarded ==
    /\ Mounted
    /\ last' = [op |-> "handleGenerate"]
    /\ genAccepted < MaxSubmits
    /\ genLoading' = TRUE
    /\ genResponse' = Null
    /\ CallAIAgent(question, BID_GENERATOR_AGENT_ID)
    /\ genPending' = genPending + 1
    /\ genAccepted' = genAccepted + 1
    /\ UNCHANGED <<question, copied, copyPending, copyTimers>>
    /\ UNCHANGED <<audVars, audAccepted>>
    /\ UNCHANGED outsideGenAud

\* handleGenerate without its `setResponse(null)`
HandleGenerateKeepingResponse ==
    /\ Mounted
    /\ last' = [op |-> "handleGenerate"]
    /\ IF TrimmedEmpty(question)
       THEN UNCHANGED <<genVars, calls, genAccepted>>
       ELSE /\ genAccepted < MaxSubmits
            /\ genLoading' = TRUE
            /\ CallAIAgent(question, BID_GENERATOR_AGENT_ID)
            /\ genPending' = genPending + 1
            /\ genAccepted' = genAccepted + 1
            /\ UNCHANGED <<question, genResponse, copied, copyPending, copyTimers>>
    /\ UNCHANGED <<audVars, audAccepted>>
    /\ UNCHANGED outsideGenAud

\* handleGenerate up to `await callAIAgent(question, BID_GENERATOR_AGENT_ID)`
HandleGenerate ==
    /\ Mounted
    /\ last' = [op |-> "handleGenerate"]
    /\ IF TrimmedEmpty(question)
       THEN UNCHANGED <<genVars, calls, genAccepted>>
       ELSE /\ genAccepted < MaxSubmits
            /\ genLoading' = TRUE
            /\ genResponse' = Null
            /\ CallAIAgent(question, BID_GENERATOR_AGENT_ID)
            /\ genPending' = genPending + 1
            /\ genAccepted' = genAccepted + 1
            /\ UNCHANGED <<question, copied, copyPending, copyTimers>>
    /\ UNCHANGED <<audVars, audAccepted>>
    /\ UNCHANGED outsideGenAud

\* the Generate button: disabled={loading || !question.trim()}
GenerateEnabled == ~genLoading /\ ~TrimmedEmpty(question)

ClickGenerate == GenerateEnabled /\ HandleGenerate

\* the synthetic result of the two failure branches
MissingInfo(warning) ==
    [answer |-> "", status |-> "missing_info", citations |-> <<>>, warning |-> warning]

\* GenerateResponse storing the result without its citations
GenerateResponseDroppingCitations(outcome) ==
    IF outcome.kind = "throw"
    THEN MissingInfo(MessageOf(outcome.error, "Network error"))
    ELSE IF SuccessWithResponse(outcome.value)
         THEN LET result == ResultOf(outcome.value.response)
              IN  IF Has(result, "citations")
                  THEN [result EXCEPT !.citations = <<>>]
                  ELSE result
         ELSE MissingInfo(ErrorOr(outcome.value, "Failed to generate answer"))

\* the value handleGenerate passes to setResponse once the call has settled
GenerateResponse(outcome) ==
    IF outcome.kind = "throw"
    THEN MissingInfo(MessageOf(outcome.error, "Network error"))
    ELSE IF SuccessWithResponse(outcome.value)
         THEN ResultOf(outcome.value.response)
         ELSE MissingInfo(ErrorOr(outcome.value, "Failed to generate answer"))

\* handleGenerate after the await: try / catch / finally
GenerateSettled(outcome) ==
    /\ Mounted
    /\ genPending > 0
    /\ genPending' = genPending - 1
    /\ genResponse' = GenerateResponse(outcome)
    /\ genLoading' = FALSE
    /\ last' = [op |-> "generateSettled", outcome |-> outcome]
    /\ UNCHANGED <<question, copied, copyPending, copyTimers>>
    /\ UNCHANGED <<audVars, calls, genAccepted, audAccepted>>
    /\ UNCHANGED outsideGenAud

\* `response?.answer`
HasAnswer(response) ==
    /\ TruthyObject(response)
    /\ Has(response, "answer")
    /\ TruthyString(response.answer)

\* handleCopy up to `await copyToClipboard(response.answer)`; the Copy button is
\* rendered with the response and disabled={!response.answer}
HandleCopy ==
    /\ Mounted
    /\ HasAnswer(genResponse)
    /\ copyPending + copyTimers < MaxCopies
    /\ copyPending' = copyPending + 1
    /\ last' = [op |-> "handleCopy"]
    /\ UNCHANGED <<question, genLoading, genResponse, copied, genPending, copyTimers>>
    /\ UNCHANGED <<audVars, calls, genAccepted, audAccepted>>
    /\ UNCHANGED outsideGenAud

\* handleCopy after the await
CopySettled(success) ==
    /\ Mounted
    /\ copyPending > 0
    /\ copyPending' = copyPending - 1
    /\ IF success
       THEN copied' = TRUE /\ copyTimers' = copyTimers + 1
       ELSE UNCHANGED <<copied, copyTimers>>
    /\ last' = [op |-> "copySettled"]
    /\ UNCHANGED <<question, genLoading, genResponse, genPending>>
    /\ UNCHANGED <<audVars, calls, genAccepted, audAccepted>>
    /\ UNCHANGED outsideGenAud

\* setTimeout(() => setCopied(false), 2000)
CopiedTimeout ==
    /\ Mounted
    /\ copyTimers > 0
    /\ copyTimers' = copyTimers - 1
    /\ copied' = FALSE
    /\ last' = [op |-> "copiedTimeout"]
    /\ UNCHANGED <<question, genLoading, genResponse, genPending, copyPending>>
    /\ UNCHANGED <<audVars, calls, genAccepted, audAccepted>>
    /\ UNCHANGED outsideGenAud

\* the state of GeneratorView that its handlers read and set
GeneratorState ==
    [question |-> question, loading |-> genLoading, response |-> genResponse,
     copied |-> copied]

\* a Clear that resets the whole form
ClearAll(state) ==
    [state EXCEPT !.response = Null, !.question = <<>>, !.copied = FALSE]

\* onClick={() => setResponse(null)} of the Clear button
Clear(state) == [state EXCEPT !.response = Null]

\* the Clear button is rendered inside `{response && (...)}`
ClearAvailable == TruthyObject(genResponse)

ClickClear ==
    /\ Mounted
    /\ ClearAvailable
    /\ question' = Clear(GeneratorState).question
    /\ genLoading' = Clear(GeneratorState).loading
    /\ genResponse' = Clear(GeneratorState).response
    /\ copied' = Clear(GeneratorState).copied
    /\ last' = [op |-> "clear"]
    /\ UNCHANGED <<genPending, copyPending, copyTimers>>
    /\ UNCHANGED <<audVars, calls, genAccepted, audAccepted>>
    /\ UNCHANGED outsideGenAud

(***************************************************************************)
(* AuditorView.                                                            *)
(***************************************************************************)
\* onChange={(e) => setDraft(e.target.value)} of a Textarea with disabled={loading}
SetDraft(text) ==
    /\ Mounted
    /\ ~audLoading
    /\ draft' = text
    /\ last' = [op |-> "setDraft"]
    /\ UNCHANGED <<audLoading, audResponse, audPending>>
    /\ UNCHANGED <<genVars, calls, genAccepted, audAccepted>>
    /\ UNCHANGED outsideGenAud

\* handleAudit without its `setResponse(null)`
HandleAuditKeepingResponse ==
    /\ Mounted
    /\ last' = [op |-> "handleAudit"]
    /\ IF TrimmedEmpty(draft)
       THEN UNCHANGED <<audVars, calls, audAccepted>>
       ELSE /\ audAccepted < MaxSubmits
            /\ audLoading' = TRUE
            /\ CallAIAgent(draft, COMPLIANCE_AUDITOR_AGENT_ID)
            /\ audPending' = audPending + 1
            /\ audAccepted' = audAccepted + 1
            /\ UNCHANGED <<draft, audResponse>>
    /\ UNCHANGED <<genVars, genAccepted>>
    /\ UNCHANGED outsideGenAud

\* handleAudit up to `await callAIAgent(draft, COMPLIANCE_AUDITOR_AGENT_ID)`
HandleAudit ==
    /\ Mounted
    /\ last' = [op |-> "handleAudit"]
    /\ IF TrimmedEmpty(draft)
       THEN UNCHANGED <<audVars, calls, audAccepted>>
       ELSE /\ audAccepted < MaxSubmits
            /\ audLoading' = TRUE
            /\ audResponse' = Null
            /\ CallAIAgent(draft, COMPLIANCE_AUDITOR_AGENT_ID)
            /\ audPending' = audPending + 1
            /\ audAccepted' = audAccepted + 1
            /\ UNCHANGED draft
    /\ UNCHANGED <<genVars, genAccepted>>
    /\ UNCHANGED outsideGenAud

\* the Audit button: disabled={loading || !draft.trim()}
AuditEnabled == ~audLoading /\ ~TrimmedEmpty(draft)

ClickAudit == AuditEnabled /\ HandleAudit

\* the response of AuditorView once the call has settled: set on success, and
\* left as it is (only console.error) on the two failure branches
AuditResponse(outcome, current) ==
    IF outcome.kind = "return" /\ SuccessWithResponse(outcome.value)
    THEN ResultOf(outcome.value.response)
    ELSE current

\* handleAudit sending the request again when the call has failed
AuditSettledWithRetry(outcome) ==
    /\ Mounted
    /\ audPending > 0
    /\ last' = [op |-> "auditSettled", outcome |-> outcome]
    /\ IF outcome.kind = "return" /\ SuccessWithResponse(outcome.value)
       THEN /\ audPending' = audPending - 1
            /\ audResponse' = ResultOf(outcome.value.response)
            /\ audLoading' = FALSE
            /\ UNCHANGED calls
       ELSE /\ CallAIAgent(draft, COMPLIANCE_AUDITOR_AGENT_ID)
            /\ UNCHANGED <<audPending, audResponse, audLoading>>
    /\ UNCHANGED draft
    /\ UNCHANGED <<genVars, genAccepted, audAccepted>>
    /\ UNCHANGED outsideGenAud

\* handleAudit after the await: try / catch / finally
AuditSettled(outcome) ==
    /\ Mounted
    /\ audPending > 0
    /\ audPending' = audPending - 1
    /\ audResponse' = AuditResponse(outcome, audResponse)
    /\ audLoading' = FALSE
    /\ last' = [op |-> "auditSettled", outcome |-> outcome]
    /\ UNCHANGED draft
    /\ UNCHANGED <<genVars, calls, genAccepted, audAccepted>>
    /\ UNCHANGED outsideGenAud

(***************************************************************************)
(* Specifications.                                                         *)
(*   Spec: the handlers run only through the controls the page renders and *)
(*         enables.                                                        *)
(*   SpecHandlers: the submit handlers are also invoked while their button *)
(*         is disabled, which is what the handlers' own guards are for.    *)
(***************************************************************************)
Edit ==
    \/ \E t \in Texts : SetQuestion(t)
    \/ \E t \in Texts : SetDraft(t)

Settle ==
    \/ \E o \in GeneratorOutcomes : GenerateSettled(o)
    \/ \E o \in AuditorOutcomes : AuditSettled(o)

Copy ==
    \/ HandleCopy
    \/ \E ok \in BOOLEAN : CopySettled(ok)
    \/ CopiedTimeout

Next ==
    \/ Edit
    \/ ClickGenerate
    \/ ClickAudit
    \/ ClickClear
    \/ Settle
    \/ Copy

Spec == Init /\ [][Next]_vars

\* the request lifecycle alone (the copy acknowledgment is independent of it)
NextHandlers ==
    \/ Edit
    \/ HandleGenerate
    \/ HandleAudit
    \/ ClickClear
    \/ Settle

SpecHandlers == Init /\ [][NextHandlers]_vars

(***************************************************************************)
(* Properties.                                                             *)
(***************************************************************************)
\* the call settled without a usable response: success = false, success
\* without a response, or a thrown value
IsTransportFailure(outcome) ==
    \/ outcome.kind = "throw"
    \/ outcome.kind = "return" /\ ~SuccessWithResponse(outcome.value)

\* the call returned success with a response
IsSuccessPayload(outcome) ==
    outcome.kind = "return" /\ SuccessWithResponse(outcome.value)

\* ... whose result has the required fields of a BidGeneratorResult
IsWellFormedGeneration(outcome) ==
    /\ IsSuccessPayload(outcome)
    /\ IsBidGeneratorResult(ResultOf(outcome.value.response))

\* a synthetic "missing information" result; the warning is judged apart
IsSyntheticMissingInfo(response) ==
    /\ Has(response, "status") /\ response.status = "missing_info"
    /\ Has(response, "answer") /\ response.answer = ""
    /\ Has(response, "citations") /\ response.citations = <<>>
    /\ Has(response, "warning")

\* C1: a submit handler invoked with non-empty text while its controller's
\* request is in flight (loading = true) issues no transport call and changes
\* no state, for the Generation and for the Audit controller.
C1_InFlightSubmitIsNoOp ==
    [][ /\ (genLoading /\ ~TrimmedEmpty(question) /\ last'.op = "handleGenerate")
            => UNCHANGED <<genVars, audVars, calls>>
        /\ (audLoading /\ ~TrimmedEmpty(draft) /\ last'.op = "handleAudit")
            => UNCHANGED <<genVars, audVars, calls>> ]_vars

\* C2: a submit handler invoked with a text that is empty after trimming issues
\* no transport call and leaves the state as it is: loading stays false and the
\* stored result, null or a previous result, is kept.
C2_EmptySubmitIsNoOp ==
    [][ /\ (TrimmedEmpty(question) /\ last'.op = "handleGenerate")
            => /\ UNCHANGED <<genVars, audVars, calls>>
               /\ ~genLoading /\ ~genLoading'
        /\ (TrimmedEmpty(draft) /\ last'.op = "handleAudit")
            => /\ UNCHANGED <<genVars, audVars, calls>>
               /\ ~audLoading /\ ~audLoading' ]_vars

\* C2 witness: handleGenerate has just run on a whitespace-only question and the
\* previous result is still stored; the auditor holds a result and a
\* whitespace-only draft as well.
C2_Witness ==
    /\ last.op = "handleGenerate"
    /\ question = <<" ">>
    /\ genResponse = GenResultSuccess
    /\ ~genLoading
    /\ draft = <<" ">>
    /\ audResponse = AuditResultPoor
    /\ calls[BID_GENERATOR_AGENT_ID] = 1

\* C3: after a Generation request that ended in a transport failure the stored
\* result has status "missing_info", an empty answer, no citations and a
\* non-empty warning.
C3_FailureGivesNonEmptyWarning ==
    (last.op = "generateSettled" /\ IsTransportFailure(last.outcome))
        => /\ IsSyntheticMissingInfo(genResponse)
           /\ genResponse.warning # ""

\* C4: after a Generation request whose transport call reported success with a
\* payload that fails the required-field checks, the stored result is the
\* synthetic "missing_info" result, never the payload's result.
C4_MalformedPayloadGivesMissingInfo ==
    (last.op = "generateSettled" /\ IsSuccessPayload(last.outcome)
        /\ ~IsWellFormedGeneration(last.outcome))
        => IsSyntheticMissingInfo(genResponse)

\* C5: when a Generation request settles with a well-formed success payload the
\* stored result is the payload's result verbatim, and a stored result changes
\* only by an accepted submit or by clear.
C5_StoredResultVerbatim ==
    [][ /\ (last'.op = "generateSettled" /\ IsWellFormedGeneration(last'.outcome))
            => genResponse' = last'.outcome.value.response.result
        /\ (IsBidGeneratorResult(genResponse) /\ genResponse' # genResponse)
            => /\ last'.op \in {"handleGenerate", "clear"}
               /\ genResponse' = Null ]_vars

\* C5 witness: the second request has settled with the two-citation result and
\* it is stored with both citations in order.
C5_Witness ==
    /\ last.op = "generateSettled"
    /\ IsWellFormedGeneration(last.outcome)
    /\ genResponse.citations = <<Citation1, Citation2>>
    /\ genResponse.answer = "AES-256 at rest, TLS 1.3 in transit."
    /\ genAccepted = 2

\* C6: after an Audit request whose transport call failed the controller has
\* loading = false and no stored result.
C6_AuditFailureLeavesNoResult ==
    (last.op = "auditSettled" /\ IsTransportFailure(last.outcome))
        => /\ ~audLoading
           /\ audResponse = Null

\* C6 witness: the second Audit request has failed by a thrown error; nothing
\* is stored.
C6_Witness ==
    /\ last.op = "auditSettled"
    /\ last.outcome.kind = "throw"
    /\ audAccepted = 2
    /\ audPending = 0
    /\ audResponse = Null
    /\ ~audLoading

\* C7: a stored Audit result has all required fields, so the render never
\* dereferences a missing analysis.
C7_StoredAuditResultHasRequiredFields ==
    /\ TruthyObject(audResponse) => IsComplianceAuditorResult(audResponse)
    /\ ~RenderThrows

\* C8: every accepted submit issues exactly one transport call, addressed to
\* its controller's own agent identifier; the calls made equal the submits
\* accepted, and nothing else (a failed request included) issues a call.
C8_OneCallPerAcceptedSubmit ==
    [][ /\ calls'[BID_GENERATOR_AGENT_ID] = genAccepted'
        /\ calls'[COMPLIANCE_AUDITOR_AGENT_ID] = audAccepted'
        /\ calls'[KNOWLEDGE_VAULT_RAG_ID] = 0
        /\ (last'.op = "handleGenerate" /\ ~TrimmedEmpty(question))
            => calls' = [calls EXCEPT ![BID_GENERATOR_AGENT_ID] = @ + 1]
        /\ (last'.op = "handleAudit" /\ ~TrimmedEmpty(draft))
            => calls' = [calls EXCEPT ![COMPLIANCE_AUDITOR_AGENT_ID] = @ + 1]
        /\ (last'.op \notin {"handleGenerate", "handleAudit"})
            => calls' = calls ]_vars

\* C8 witness: two requests of each controller have been made, the last Audit
\* request has failed, and no further call is outstanding or was issued.
C8_Witness ==
    /\ last.op = "auditSettled"
    /\ IsTransportFailure(last.outcome)
    /\ calls[COMPLIANCE_AUDITOR_AGENT_ID] = 2
    /\ calls[BID_GENERATOR_AGENT_ID] = 2
    /\ audPending = 0
    /\ genPending = 0

\* C9: through the page's controls, loading = true implies that no result is
\* stored (the Clear button is not rendered), a request is pending exactly
\* while loading, and clear never happens while a request is pending.
C9_ClearOnlyWhenNotInFlight ==
    [][ /\ genLoading' => (genResponse' = Null /\ ~ClearAvailable')
        /\ genLoading' <=> (genPending' > 0)
        /\ (last'.op = "clear") => (~genLoading /\ genPending = 0) ]_vars

\* C9 witness: a second request is in flight, the result of the first has been
\* cleared by the submit, and clear is not available.
C9_Witness ==
    /\ last.op = "handleGenerate"
    /\ genLoading
    /\ genPending = 1
    /\ genAccepted = 2
    /\ genResponse = Null
    /\ ~ClearAvailable

\* C10: clear leaves loading = false and no stored result, changes nothing
\* else (question and copy acknowledgment included), and applying it again to
\* the state it produced gives that same state.
C10_ClearIdempotent ==
    [][ (last'.op = "clear")
            => /\ genResponse' = Null
               /\ genLoading' = FALSE
               /\ UNCHANGED <<question, genLoading, copied, genPending, copyPending,
                              copyTimers, audVars, calls>>
               /\ GeneratorState' = Clear(GeneratorState)
               /\ Clear(GeneratorState') = GeneratorState' ]_vars

\* C10 witness: clear has run while the copy acknowledgment was shown and a
\* question was typed; both are still there and no result is stored.
C10_Witness ==
    /\ last.op = "clear"
    /\ genResponse = Null
    /\ ~genLoading
    /\ copied
    /\ question = <<"q">>

(***************************************************************************)
(* Classification functions of AuditorView, applied by the render to the   *)
(* stored result.  They are pure; SpecTaxonomy applies them to inputs      *)
(* drawn from bounded sets.                                                *)
(***************************************************************************)
MaxScore == 100    \* largest compliance_score rendered

Scores == 0..MaxScore
RiskLevels == {"safe", "warning", "danger", "critical", ""}
Statuses == {"VERIFIED", "UNKNOWN", "CONTRADICTION", "PENDING", ""}

\* getScoreColor with the upper band starting at 80
getScoreColorInclusive(score) ==
    IF score >= 80 THEN "bg-green-500"
    ELSE IF score >= 50 THEN "bg-yellow-500"
    ELSE "bg-red-500"

getScoreColor(score) ==
    IF score > 80 THEN "bg-green-500"
    ELSE IF score >= 50 THEN "bg-yellow-500"
    ELSE "bg-red-500"

getScoreTextColor(score) ==
    IF score > 80 THEN "text-green-900"
    ELSE IF score >= 50 THEN "text-yellow-900"
    ELSE "text-red-900"

getRiskBadgeColor(riskLevel) ==
    CASE riskLevel = "safe" -> "bg-green-100 text-green-800 border-green-200"
      [] riskLevel = "warning" -> "bg-yellow-100 text-yellow-800 border-yellow-200"
      [] riskLevel = "danger" -> "bg-red-100 text-red-800 border-red-200"
      [] OTHER -> "bg-slate-100 text-slate-800 border-slate-200"

\* the class of a sentence row's container (the ternary on item.risk_level)
RowContainerClass(riskLevel) ==
    IF riskLevel = "safe" THEN "bg-green-50 border-green-200"
    ELSE IF riskLevel = "warning" THEN "bg-yellow-50 border-yellow-200"
    ELSE "bg-red-50 border-red-200"

\* an icon element
Icon(name, className) == [icon |-> name, className |-> className]

\* getStatusIcon answering the warning icon for a status it does not know
getStatusIconDefaultWarning(status) ==
    CASE status = "VERIFIED" -> Icon("CheckCircle", "h-5 w-5 text-green-600")
      [] status = "CONTRADICTION" -> Icon("XCircle", "h-5 w-5 text-red-600")
      [] OTHER -> Icon("AlertTriangle", "h-5 w-5 text-yellow-600")

getStatusIcon(status) ==
    CASE status = "VERIFIED" -> Icon("CheckCircle", "h-5 w-5 text-green-600")
      [] status = "UNKNOWN" -> Icon("AlertTriangle", "h-5 w-5 text-yellow-600")
      [] status = "CONTRADICTION" -> Icon("XCircle", "h-5 w-5 text-red-600")
      [] OTHER -> Null

\* what is outside the classification of a rendered value
outsideTaxonomy ==
    <<genVars, audVars, vaultVars, activeTab, tabsVars, calls, genAccepted, audAccepted,
      saveAccepted>>

\* the class of the score text in the header, the same for every score
ScoreTextClass == "text-6xl font-bold text-white mb-2"

\* the header card of a stored result: getScoreColor(response.compliance_score)
RenderScore ==
    /\ Mounted
    /\ TruthyObject(audResponse)
    /\ IF Has(audResponse, "compliance_score")
       THEN /\ taxIn' = [compliance_score |-> audResponse.compliance_score]
            /\ taxOut' = [scoreColor |-> getScoreColor(audResponse.compliance_score),
                          scoreTextClass |-> ScoreTextClass]
       ELSE \* undefined > 80 and undefined >= 50 are both false
            /\ taxIn' = [missing |-> "compliance_score"]
            /\ taxOut' = [scoreColor |-> "bg-red-500",
                          scoreTextClass |-> ScoreTextClass]
    /\ last' = [op |-> "renderScore"]
    /\ UNCHANGED outsideTaxonomy

\* row `index` of response.analysis.map(...), under `response && !loading`
RenderSentence(index) ==
    /\ Mounted
    /\ TruthyObject(audResponse)
    /\ ~audLoading
    /\ Has(audResponse, "analysis")
    /\ index \in DOMAIN audResponse.analysis
    /\ LET item == audResponse.analysis[index]
       IN  /\ taxIn' = [status |-> item.status, risk_level |-> item.risk_level]
           /\ taxOut' = [rowClass |-> RowContainerClass(item.risk_level),
                         icon |-> getStatusIcon(item.status),
                         badgeClass |-> getRiskBadgeColor(item.risk_level)]
    /\ last' = [op |-> "renderSentence"]
    /\ UNCHANGED outsideTaxonomy

\* a stored result with one analysed sentence
StoredResult(score, status, riskLevel) ==
    [analysis |-> <<[Sentence1 EXCEPT !.status = status, !.risk_level = riskLevel]>>,
     compliance_score |-> score,
     total_sentences |-> 1,
     summary |-> ""]

\* AuditorView holding a result with any score, status and risk_level
InitTaxonomy ==
    /\ InitOutsideAudResponse
    /\ \E score \in Scores, status \in Statuses, riskLevel \in RiskLevels :
           audResponse = StoredResult(score, status, riskLevel)

NextTaxonomy ==
    \/ RenderScore
    \/ /\ TruthyObject(audResponse)
       /\ Has(audResponse, "analysis")
       /\ \E index \in DOMAIN audResponse.analysis : RenderSentence(index)

SpecTaxonomy == InitTaxonomy /\ [][NextTaxonomy]_vars

\* the band a score colour stands for
ScoreBand(class) ==
    CASE class \in {"bg-green-500", "text-green-900"} -> "good"
      [] class \in {"bg-yellow-500", "text-yellow-900"} -> "moderate"
      [] class \in {"bg-red-500", "text-red-900"} -> "poor"
      [] OTHER -> "none"

\* the display category a badge or row class stands for
RiskCategory(class) ==
    CASE class \in {"bg-green-100 text-green-800 border-green-200",
                    "bg-green-50 border-green-200"} -> "safe"
      [] class \in {"bg-yellow-100 text-yellow-800 border-yellow-200",
                    "bg-yellow-50 border-yellow-200"} -> "warning"
      [] class \in {"bg-red-100 text-red-800 border-red-200",
                    "bg-red-50 border-red-200"} -> "danger"
      [] OTHER -> "neutral"

\* C11: for every integer score exactly one band applies: good iff score > 80,
\* moderate iff 50 <= score <= 80, poor iff score < 50; getScoreColor and
\* getScoreTextColor give the same band.
C11_ScoreBanding ==
    Has(taxIn, "compliance_score") =>
        LET score == taxIn.compliance_score
            band == ScoreBand(taxOut.scoreColor)
        IN  /\ band \in {"good", "moderate", "poor"}
            /\ (band = "good") <=> (score > 80)
            /\ (band = "moderate") <=> (50 <= score /\ score <= 80)
            /\ (band = "poor") <=> (score < 50)
            /\ ScoreBand(getScoreTextColor(score)) = band

\* C11 witness: the score 80 has been rendered in the moderate band.
C11_Witness ==
    /\ last.op = "renderScore"
    /\ taxIn.compliance_score = 80
    /\ ScoreBand(taxOut.scoreColor) = "moderate"
    /\ ScoreBand(getScoreTextColor(taxIn.compliance_score)) = "moderate"

\* C12: safe, warning and danger each have their own display category, and any
\* other risk_level has the neutral category in the badge and in the row's
\* container alike; an unrecognized risk_level is never shown as danger.
C12_UnknownRiskIsNeutral ==
    Has(taxIn, "risk_level") =>
        LET level == taxIn.risk_level
            badge == RiskCategory(taxOut.badgeClass)
            row == RiskCategory(taxOut.rowClass)
        IN  IF level \in {"safe", "warning", "danger"}
            THEN badge = level /\ row = level
            ELSE badge = "neutral" /\ row = "neutral"

\* C13: VERIFIED, UNKNOWN and CONTRADICTION have three different icons, every
\* other status has no icon, and the icon is decided by the status whatever
\* the risk_level of the sentence.
C13_StatusIcon ==
    Has(taxIn, "status") =>
        LET status == taxIn.status
            icon == taxOut.icon
        IN  /\ (status = "VERIFIED") <=> (icon # Null /\ icon.icon = "CheckCircle")
            /\ (status = "UNKNOWN") <=> (icon # Null /\ icon.icon = "AlertTriangle")
            /\ (status = "CONTRADICTION") <=> (icon # Null /\ icon.icon = "XCircle")
            /\ (status \notin {"VERIFIED", "UNKNOWN", "CONTRADICTION"}) <=> (icon = Null)

\* C13 witness: a sentence with status UNKNOWN and risk_level danger has been
\* rendered with the warning icon.
C13_Witness ==
    /\ last.op = "renderSentence"
    /\ taxIn.status = "UNKNOWN"
    /\ taxIn.risk_level = "danger"
    /\ taxOut.icon = Icon("AlertTriangle", "h-5 w-5 text-yellow-600")

(***************************************************************************)
(* VaultView.                                                              *)
(***************************************************************************)
MaxSaves == 3      \* accepted saves in one behaviour

\* SAMPLE_VAULT_DATA, abbreviated to its first line
SAMPLE_VAULT_DATA ==
    <<"E", "N", "T", "E", "R", "P", "R", "I", "S", "E", " ",
      "S", "E", "C", "U", "R", "I", "T", "Y", " ",
      "P", "O", "L", "I", "C", "Y">>

ValidationMessage == "Please enter content to save"
SuccessMessage == "Knowledge Vault content saved and indexed successfully!"

\* what the handlers of VaultView neither read nor set
outsideVault ==
    <<genVars, audVars, activeTab, tabsVars, taxVars, calls, genAccepted, audAccepted>>

\* a Textarea that is never disabled
VaultEditAlwaysEnabled == TRUE

\* the Textarea of VaultView: disabled={saving}
VaultEditEnabled == ~saving

\* onChange={(e) => setVaultContent(e.target.value)}
SetVaultContent(text) ==
    /\ Mounted
    /\ VaultEditEnabled
    /\ vaultContent' = text
    /\ last' = [op |-> "setVaultContent"]
    /\ UNCHANGED <<saving, saveMessage, savePending, clearTimers, saveAccepted>>
    /\ UNCHANGED outsideVault

\* the state of VaultView that its handlers read and set
VaultState ==
    [vaultContent |-> vaultContent, saving |-> saving, saveMessage |-> saveMessage]

\* a handleLoadSample that leaves the message as it is
LoadSampleKeepingMessage(state) ==
    [state EXCEPT !.vaultContent = SAMPLE_VAULT_DATA]

\* handleLoadSample: setVaultContent(SAMPLE_VAULT_DATA); setSaveMessage('')
LoadSample(state) ==
    [state EXCEPT !.vaultContent = SAMPLE_VAULT_DATA, !.saveMessage = ""]

HandleLoadSample ==
    /\ Mounted
    /\ vaultContent' = LoadSample(VaultState).vaultContent
    /\ saving' = LoadSample(VaultState).saving
    /\ saveMessage' = LoadSample(VaultState).saveMessage
    /\ last' = [op |-> "handleLoadSample"]
    /\ UNCHANGED <<savePending, clearTimers, saveAccepted>>
    /\ UNCHANGED outsideVault

\* the Load Sample Data button: disabled={saving}
LoadSampleEnabled == ~saving

ClickLoadSample == LoadSampleEnabled /\ HandleLoadSample

\* handleSave without its `if (!vaultContent.trim())` branch
HandleSaveUnguarded ==
    /\ Mounted
    /\ last' = [op |-> "handleSave"]
    /\ saveAccepted < MaxSaves
    /\ saving' = TRUE
    /\ saveMessage' = ""
    /\ savePending' = savePending + 1
    /\ saveAccepted' = saveAccepted + 1
    /\ UNCHANGED <<vaultContent, clearTimers>>
    /\ UNCHANGED outsideVault

\* handleSave up to `await new Promise(resolve => setTimeout(resolve, 1000))`
HandleSave ==
    /\ Mounted
    /\ last' = [op |-> "handleSave"]
    /\ IF TrimmedEmpty(vaultContent)
       THEN /\ saveMessage' = ValidationMessage
            /\ UNCHANGED <<vaultContent, saving, savePending, clearTimers, saveAccepted>>
       ELSE /\ saveAccepted < MaxSaves
            /\ saving' = TRUE
            /\ saveMessage' = ""
            /\ savePending' = savePending + 1
            /\ saveAccepted' = saveAccepted + 1
            /\ UNCHANGED <<vaultContent, clearTimers>>
    /\ UNCHANGED outsideVault

\* a Save button that is disabled only for empty content
SaveEnabledWhileSaving == ~TrimmedEmpty(vaultContent)

\* the Save button: disabled={saving || !vaultContent.trim()}
SaveEnabled == ~saving /\ ~TrimmedEmpty(vaultContent)

ClickSave == SaveEnabled /\ HandleSave

\* a save that can be rejected after the delay
SaveDelayElapsedOrRejected ==
    /\ Mounted
    /\ savePending > 0
    /\ savePending' = savePending - 1
    /\ saving' = FALSE
    /\ \/ saveMessage' = SuccessMessage /\ clearTimers' = clearTimers + 1
       \/ saveMessage' = "Indexing failed" /\ UNCHANGED clearTimers
    /\ last' = [op |-> "saveDelayElapsed"]
    /\ UNCHANGED <<vaultContent, saveAccepted>>
    /\ UNCHANGED outsideVault

\* handleSave after the 1000 ms delay: setSaving(false), the success message,
\* and the 5000 ms timer that clears it
SaveDelayElapsed ==
    /\ Mounted
    /\ savePending > 0
    /\ savePending' = savePending - 1
    /\ saving' = FALSE
    /\ saveMessage' = SuccessMessage
    /\ clearTimers' = clearTimers + 1
    /\ last' = [op |-> "saveDelayElapsed"]
    /\ UNCHANGED <<vaultContent, saveAccepted>>
    /\ UNCHANGED outsideVault

\* setTimeout(() => setSaveMessage(''), 5000)
MessageTimeout ==
    /\ Mounted
    /\ clearTimers > 0
    /\ clearTimers' = clearTimers - 1
    /\ saveMessage' = ""
    /\ last' = [op |-> "messageTimeout"]
    /\ UNCHANGED <<vaultContent, saving, savePending, saveAccepted>>
    /\ UNCHANGED outsideVault

VaultTexts == Texts \cup {SAMPLE_VAULT_DATA}

VaultTimers ==
    \/ SaveDelayElapsed
    \/ MessageTimeout

\* VaultView through its rendered controls
NextVault ==
    \/ \E t \in VaultTexts : SetVaultContent(t)
    \/ ClickSave
    \/ ClickLoadSample
    \/ VaultTimers

SpecVault == Init /\ [][NextVault]_vars

\* timers that are due do fire
VaultFairness == WF_vars(SaveDelayElapsed) /\ WF_vars(MessageTimeout)

SpecVaultFair == SpecVault /\ VaultFairness

\* VaultView with its handlers invoked also while their button is disabled
NextVaultHandlers ==
    \/ \E t \in VaultTexts : SetVaultContent(t)
    \/ HandleSave
    \/ HandleLoadSample
    \/ VaultTimers

SpecVaultHandlers == Init /\ [][NextVaultHandlers]_vars

SpecVaultHandlersFair == SpecVaultHandlers /\ VaultFairness

\* C14: handleSave on a buffer that is empty after trimming never enters
\* Saving: saving stays false, the content is unchanged, no delay and no timer
\* is started, and the message becomes the validation message.
C14_EmptySaveIsRejected ==
    [][ (TrimmedEmpty(vaultContent) /\ last'.op = "handleSave")
            => /\ ~saving /\ ~saving'
               /\ saveMessage' = ValidationMessage
               /\ UNCHANGED <<vaultContent, savePending, clearTimers, saveAccepted>>
               /\ UNCHANGED outsideVault ]_vars

\* C14 witness: handleSave has run on a whitespace-only buffer; the validation
\* message is shown and nothing is pending.
C14_Witness ==
    /\ last.op = "handleSave"
    /\ vaultContent = <<" ">>
    /\ saveMessage = ValidationMessage
    /\ ~saving
    /\ savePending = 0
    /\ clearTimers = 0

\* C15: an accepted save starts from saving = false and enters Saving (saving =
\* true, empty message); the only way out of Saving is Saved (saving = false,
\* the success message); the success message only ever gives way to the empty
\* message; and with timers that fire, Saving leads to Saved and Saved leads
\* to the empty message.
C15_SaveLifecycle ==
    /\ [][ /\ (last'.op = "handleSave" /\ ~TrimmedEmpty(vaultContent))
               => (~saving /\ saving' /\ saveMessage' = "")
           /\ saving => saveMessage = ""
           /\ (saving /\ (saving' # saving \/ saveMessage' # saveMessage))
               => (~saving' /\ saveMessage' = SuccessMessage)
           /\ (~saving /\ saveMessage = SuccessMessage /\ saveMessage' # saveMessage)
               => saveMessage' = "" ]_vars
    /\ saving ~> (~saving /\ saveMessage = SuccessMessage)
    /\ (saveMessage = SuccessMessage) ~> (saveMessage = "")

\* C15 witness: after a save the timer has cleared the success message and the
\* vault is idle again.
C15_Witness ==
    /\ last.op = "messageTimeout"
    /\ saveAccepted = 1
    /\ ~saving
    /\ saveMessage = ""
    /\ savePending = 0
    /\ clearTimers = 0

\* C16: from every state that shows the validation message, the message is
\* eventually cleared without a user action.
C16_RejectedAutoReverts ==
    (saveMessage = ValidationMessage) ~> (saveMessage = "")

\* C17 as stated: while a save is in progress the edit of the content is
\* enabled.
C17_EditEnabledWhileSaving ==
    saving => ENABLED (\E t \in VaultTexts : SetVaultContent(t))

\* C17 as amended: while a save is in progress the content cannot be edited
\* (the Textarea is disabled) and stays as it is; an edit happens only while no
\* save is in progress and changes the content alone.
C17_NoEditWhileSaving ==
    [][ /\ saving => (~VaultEditEnabled /\ UNCHANGED vaultContent)
        /\ (last'.op = "setVaultContent")
            => /\ ~saving
               /\ UNCHANGED <<saving, saveMessage, savePending, clearTimers>> ]_vars

\* C17 witness: a save of the content "q" is in progress and the Textarea is
\* disabled.
C17_Witness ==
    /\ last.op = "handleSave"
    /\ saving
    /\ savePending = 1
    /\ vaultContent = <<"q">>
    /\ ~VaultEditEnabled
    /\ ~ENABLED (\E t \in VaultTexts : SetVaultContent(t))

\* C18: while a save is in progress neither Save nor Load Sample is enabled,
\* saving and saveMessage change only by the completion of the pending save,
\* and at most one save delay is outstanding.
C18_OneSaveAtATime ==
    [][ /\ saving => (~SaveEnabled /\ ~LoadSampleEnabled)
        /\ saving => last'.op \notin {"handleSave", "handleLoadSample"}
        /\ (saving /\ (saving' # saving \/ saveMessage' # saveMessage))
            => last'.op = "saveDelayElapsed"
        /\ savePending' <= 1
        /\ saving' <=> (savePending' = 1) ]_vars

\* C18 witness: a second save is in progress while the timer of the first is
\* still pending.
C18_Witness ==
    /\ saving
    /\ savePending = 1
    /\ saveAccepted = 2
    /\ clearTimers = 1
    /\ ~SaveEnabled
    /\ ~LoadSampleEnabled

\* C19: handleLoadSample sets the content to the sample document whatever it
\* was, empties the message, leaves saving and everything else unchanged
\* (no transport call), and applied to its own result changes nothing.
C19_LoadSample ==
    [][ (last'.op = "handleLoadSample")
            => /\ vaultContent' = SAMPLE_VAULT_DATA
               /\ saveMessage' = ""
               /\ UNCHANGED <<saving, savePending, clearTimers, saveAccepted>>
               /\ UNCHANGED outsideVault
               /\ VaultState' = LoadSample(VaultState)
               /\ LoadSample(VaultState') = VaultState' ]_vars

\* C19 witness: handleLoadSample has replaced the content and emptied the
\* message while the timer of an earlier save was still pending.
C19_Witness ==
    /\ last.op = "handleLoadSample"
    /\ vaultContent = SAMPLE_VAULT_DATA
    /\ saveMessage = ""
    /\ ~saving
    /\ saveAccepted = 1
    /\ clearTimers = 1

(***************************************************************************)
(* Home: the three views under one Tabs element.                           *)
(***************************************************************************)
MaxPageRequests == 1    \* accepted submits and saves per view on the page

TabValues == {"generator", "auditor", "vault"}

\* <TabsContent value={tab}>: the view the user can act on
ViewShown(tab) == activeTab = tab

\* whether the view under <TabsContent value={tab}> is mounted: it keeps its
\* state and its continuations and timers set its state
ViewMounted(tab) == keepMounted \/ ViewShown(tab)

\* the awaits and timers of the view under `tab`, all left behind when the
\* view is unmounted
Abandon(tab) ==
    CASE tab = "generator" ->
             [orphaned EXCEPT !.gen = genPending, !.copy = copyPending,
                              !.copyTimers = copyTimers]
      [] tab = "auditor" -> [orphaned EXCEPT !.aud = audPending]
      [] tab = "vault" ->
             [orphaned EXCEPT !.save = savePending, !.clearTimers = clearTimers]

\* a view mounted again starts from its useState initial values
Remount(tab) ==
    /\ IF tab = "generator"
       THEN /\ question' = <<>>
            /\ genLoading' = FALSE
            /\ genResponse' = Null
            /\ copied' = FALSE
            /\ UNCHANGED <<genPending, copyPending, copyTimers>>
       ELSE UNCHANGED genVars
    /\ IF tab = "auditor"
       THEN /\ draft' = <<>>
            /\ audLoading' = FALSE
            /\ audResponse' = Null
            /\ UNCHANGED audPending
       ELSE UNCHANGED audVars
    /\ IF tab = "vault"
       THEN /\ vaultContent' = <<>>
            /\ saving' = FALSE
            /\ saveMessage' = ""
            /\ UNCHANGED <<savePending, clearTimers>>
       ELSE UNCHANGED vaultVars

\* onValueChange={setActiveTab}
SetActiveTab(tab) ==
    /\ Mounted
    /\ activeTab' = tab
    /\ last' = [op |-> "setActiveTab"]
    /\ IF keepMounted \/ tab = activeTab
       THEN UNCHANGED <<genVars, audVars, vaultVars, orphaned>>
       ELSE orphaned' = Abandon(activeTab) /\ Remount(tab)
    /\ UNCHANGED <<keepMounted, taxVars, calls>>
    /\ UNCHANGED <<genAccepted, audAccepted, saveAccepted>>

\* what a continuation or timer of an unmounted view leaves alone: its
\* setState calls set nothing
outsideOrphans ==
    <<question, genLoading, genResponse, copied, draft, audLoading, audResponse,
      vaultContent, saving, saveMessage, activeTab, keepMounted, taxVars, calls,
      genAccepted, audAccepted, saveAccepted>>

\* handleGenerate of an unmounted GeneratorView after the await
OrphanGenerateSettled ==
    /\ Mounted
    /\ orphaned.gen > 0
    /\ genPending' = genPending - 1
    /\ orphaned' = [orphaned EXCEPT !.gen = @ - 1]
    /\ last' = [op |-> "generateSettledUnmounted"]
    /\ UNCHANGED <<copyPending, copyTimers, audPending, savePending, clearTimers>>
    /\ UNCHANGED outsideOrphans

\* handleCopy of an unmounted GeneratorView after the await: on success the
\* 2000 ms timer is still scheduled
OrphanCopySettled(success) ==
    /\ Mounted
    /\ orphaned.copy > 0
    /\ copyPending' = copyPending - 1
    /\ IF success
       THEN /\ copyTimers' = copyTimers + 1
            /\ orphaned' = [orphaned EXCEPT !.copy = @ - 1, !.copyTimers = @ + 1]
       ELSE /\ UNCHANGED copyTimers
            /\ orphaned' = [orphaned EXCEPT !.copy = @ - 1]
    /\ last' = [op |-> "copySettledUnmounted"]
    /\ UNCHANGED <<genPending, audPending, savePending, clearTimers>>
    /\ UNCHANGED outsideOrphans

\* the 2000 ms timer of an unmounted GeneratorView
OrphanCopiedTimeout ==
    /\ Mounted
    /\ orphaned.copyTimers > 0
    /\ copyTimers' = copyTimers - 1
    /\ orphaned' = [orphaned EXCEPT !.copyTimers = @ - 1]
    /\ last' = [op |-> "copiedTimeoutUnmounted"]
    /\ UNCHANGED <<genPending, copyPending, audPending, savePending, clearTimers>>
    /\ UNCHANGED outsideOrphans

\* handleAudit of an unmounted AuditorView after the await
OrphanAuditSettled ==
    /\ Mounted
    /\ orphaned.aud > 0
    /\ audPending' = audPending - 1
    /\ orphaned' = [orphaned EXCEPT !.aud = @ - 1]
    /\ last' = [op |-> "auditSettledUnmounted"]
    /\ UNCHANGED <<genPending, copyPending, copyTimers, savePending, clearTimers>>
    /\ UNCHANGED outsideOrphans

\* handleSave of an unmounted VaultView after the 1000 ms delay: the 5000 ms
\* timer is still scheduled
OrphanSaveDelayElapsed ==
    /\ Mounted
    /\ orphaned.save > 0
    /\ savePending' = savePending - 1
    /\ clearTimers' = clearTimers + 1
    /\ orphaned' = [orphaned EXCEPT !.save = @ - 1, !.clearTimers = @ + 1]
    /\ last' = [op |-> "saveDelayElapsedUnmounted"]
    /\ UNCHANGED <<genPending, copyPending, copyTimers, audPending>>
    /\ UNCHANGED outsideOrphans

\* the 5000 ms timer of an unmounted VaultView
OrphanMessageTimeout ==
    /\ Mounted
    /\ orphaned.clearTimers > 0
    /\ clearTimers' = clearTimers - 1
    /\ orphaned' = [orphaned EXCEPT !.clearTimers = @ - 1]
    /\ last' = [op |-> "messageTimeoutUnmounted"]
    /\ UNCHANGED <<genPending, copyPending, copyTimers, audPending, savePending>>
    /\ UNCHANGED outsideOrphans

GeneratorTab ==
    /\ ViewShown("generator")
    /\ \/ \E t \in Texts : SetQuestion(t)
       \/ genAccepted < MaxPageRequests /\ ClickGenerate
       \/ ClickClear
       \/ HandleCopy

AuditorTab ==
    /\ ViewShown("auditor")
    /\ \/ \E t \in Texts : SetDraft(t)
       \/ audAccepted < MaxPageRequests /\ ClickAudit

VaultTab ==
    /\ ViewShown("vault")
    /\ \/ \E t \in VaultTexts : SetVaultContent(t)
       \/ saveAccepted < MaxPageRequests /\ ClickSave
       \/ ClickLoadSample

\* continuations and timers of GeneratorView, of the mounted view and of
\* views unmounted before
GeneratorBackground ==
    \/ /\ ViewMounted("generator")
       /\ \/ genPending > orphaned.gen /\ \E o \in GeneratorOutcomes : GenerateSettled(o)
          \/ copyPending > orphaned.copy /\ \E success \in BOOLEAN : CopySettled(success)
          \/ copyTimers > orphaned.copyTimers /\ CopiedTimeout
    \/ OrphanGenerateSettled
    \/ \E success \in BOOLEAN : OrphanCopySettled(success)
    \/ OrphanCopiedTimeout

AuditorBackground ==
    \/ /\ ViewMounted("auditor")
       /\ audPending > orphaned.aud
       /\ \E o \in AuditorOutcomes : AuditSettled(o)
    \/ OrphanAuditSettled

VaultBackground ==
    \/ /\ ViewMounted("vault")
       /\ \/ savePending > orphaned.save /\ SaveDelayElapsed
          \/ clearTimers > orphaned.clearTimers /\ MessageTimeout
    \/ OrphanSaveDelayElapsed
    \/ OrphanMessageTimeout

\* the page: the three views under one Tabs element
NextPage ==
    \/ \E tab \in TabValues : SetActiveTab(tab)
    \/ GeneratorTab
    \/ AuditorTab
    \/ VaultTab
    \/ GeneratorBackground
    \/ AuditorBackground
    \/ VaultBackground

SpecPage == Init /\ [][NextPage]_vars

GeneratorOps ==
    {"setQuestion", "handleGenerate", "generateSettled", "clear", "handleCopy",
     "copySettled", "copiedTimeout", "generateSettledUnmounted",
     "copySettledUnmounted", "copiedTimeoutUnmounted"}

AuditorOps == {"setDraft", "handleAudit", "auditSettled", "auditSettledUnmounted"}

VaultOps ==
    {"setVaultContent", "handleSave", "handleLoadSample", "saveDelayElapsed",
     "messageTimeout", "saveDelayElapsedUnmounted", "messageTimeoutUnmounted"}

\* C20: the three controllers share no mutable state: a step of one view
\* leaves the state of the other two views unchanged (the Vault issues no
\* agent call either), and no request, save or completion of one view ever
\* disables the submit or save of another: whenever a view is shown, is not
\* itself in flight and has non-blank input, its submit or save can be taken,
\* whatever the other two views have done.
C20_ControllersIndependent ==
    /\ [][ /\ last'.op \in GeneratorOps => UNCHANGED <<audVars, vaultVars>>
           /\ last'.op \in AuditorOps => UNCHANGED <<genVars, vaultVars>>
           /\ last'.op \in VaultOps => UNCHANGED <<genVars, audVars, calls>> ]_vars
    /\ [] /\ ( /\ ViewShown("generator")
               /\ ~genLoading
               /\ ~TrimmedEmpty(question)
               /\ genAccepted < MaxPageRequests ) =>
                 ENABLED (GeneratorTab /\ last'.op = "handleGenerate")
          /\ ( /\ ViewShown("auditor")
               /\ ~audLoading
               /\ ~TrimmedEmpty(draft)
               /\ audAccepted < MaxPageRequests ) =>
                 ENABLED (AuditorTab /\ last'.op = "handleAudit")
          /\ ( /\ ViewShown("vault")
               /\ ~saving
               /\ ~TrimmedEmpty(vaultContent)
               /\ saveAccepted < MaxPageRequests ) =>
                 ENABLED (VaultTab /\ last'.op = "handleSave")

(***************************************************************************)
(* The running page under the assumption that every transport call         *)
(* eventually resolves or throws.                                           *)
(***************************************************************************)
TransportFairness ==
    /\ WF_vars(\E o \in GeneratorOutcomes : GenerateSettled(o))
    /\ WF_vars(\E o \in AuditorOutcomes : AuditSettled(o))

SpecFair == Spec /\ TransportFairness

\* C21: every accepted submit sets its controller in flight and clears the
\* prior result; with transport calls that eventually resolve or throw, a
\* controller in flight always eventually has loading = false; when a
\* generation completes the stored result is non-null; and loading and the
\* stored result change only by submit, clear or transport completion.
C21_SubmitLifecycle ==
    /\ [][ /\ (last'.op = "handleGenerate" /\ genAccepted' # genAccepted) =>
                  genLoading' /\ genResponse' = Null
           /\ (last'.op = "handleAudit" /\ audAccepted' # audAccepted) =>
                  audLoading' /\ audResponse' = Null
           /\ last'.op = "generateSettled" =>
                  ~genLoading' /\ TruthyObject(genResponse')
           /\ last'.op = "auditSettled" => ~audLoading'
           /\ (genLoading' # genLoading \/ genResponse' # genResponse) =>
                  last'.op \in {"handleGenerate", "generateSettled", "clear"}
           /\ (audLoading' # audLoading \/ audResponse' # audResponse) =>
                  last'.op \in {"handleAudit", "auditSettled"} ]_vars
    /\ genLoading ~> ~genLoading
    /\ audLoading ~> ~audLoading

(***************************************************************************)
(* Which save a message and a clear timer belong to.  Every save delay is  *)
(* 1000 ms and every clear timer 5000 ms, so delays and timers end in the  *)
(* order they were started.                                                 *)
(***************************************************************************)
\* saves whose delay has ended, numbered 1, 2, ... in the order accepted
CompletedSaves == saveAccepted - savePending

\* the save that set the success message now shown
MessageProducer == CompletedSaves

\* the save that scheduled the clear timer due first
OldestClearTimer == CompletedSaves - clearTimers + 1

\* C22: a displayed message is cleared only by the start of a later save, by
\* load_sample, or by the clear timer of the save that produced it: a timer
\* left pending by an earlier save never clears a later save's success
\* message or a validation message.
C22_MessageClearedByOwnTimer ==
    [][ (saveMessage # "" /\ saveMessage' = "") =>
            \/ last'.op = "handleSave"
            \/ last'.op = "handleLoadSample"
            \/ /\ last'.op = "messageTimeout"
               /\ saveMessage = SuccessMessage
               /\ OldestClearTimer = MessageProducer ]_vars

====
